---- MODULE Spec2Model ----
(***************************************************************************)
(* A model of the deterministic single-tape Turing-machine interpreter of  *)
(* src/turing_machine.py: the TuringMachine constructor, the execute       *)
(* method (one action per block of its body) and the three example         *)
(* machines of create_example_machines.                                    *)
(*                                                                         *)
(* Strings are sequences of one-character strings; a tape symbol is a     *)
(* one-character string.  Python's 0-based head_position is kept 0-based,  *)
(* so the cell under the head is tape[head_position + 1].                  *)
(***************************************************************************)
EXTENDS Integers, Sequences, FiniteSets, TLC

VARIABLES machine, pc, error, input_string, max_steps, tape, head_position,
          current_state, steps, current_symbol, result,
          calls, cur

\* machine is the TuringMachine object; pc .. result are the locals (and the
\* outcome) of the call of execute that is running; calls holds the locals of
\* the calls that are not running, and cur names the running one
vars == <<machine, pc, error, input_string, max_steps, tape, head_position,
          current_state, steps, current_symbol, result, calls, cur>>

(***************************************************************************)
(* Bounds of the model.                                                    *)
(***************************************************************************)
\* longest input over {0,1} given to even_ones and equal_zeros_ones
MaxBinaryLen == 6
\* longest input over {0,1,a,b} given to accept_all
MaxQuadLen == 3
\* longest input given to the machines of the small families
MaxUnaryLen == 2
\* longest input holding a symbol outside the input alphabet
MaxBadLen == 2
\* largest explicit max_steps argument (the smallest is -1)
MaxStepBound == 4

\* the default of execute's max_steps parameter
DefaultMaxSteps == 10000

\* the default of the constructor's blank_symbol parameter
DefaultBlank == "_"

\* all strings over alphabet S of length at most n
Strings(S, n) == UNION {[1..k -> S] : k \in 0..n}

(***************************************************************************)
(* Machine definitions: the arguments of TuringMachine.__init__, which     *)
(* become the fields of the object.                                        *)
(***************************************************************************)
MachineDef(sts, alph, talph, trans, init, acc, rej, blank) ==
    [states |-> sts, alphabet |-> alph, tape_alphabet |-> talph,
     transitions |-> trans, initial_state |-> init, accept_states |-> acc,
     reject_states |-> rej, blank_symbol |-> blank]

\* a transition table given as a set of <<state, symbol, new_state, write, dir>>
\* rows with distinct (state, symbol) keys, as the dict it denotes
Table(rows) ==
    [k \in {<<r[1], r[2]>> : r \in rows} |->
        LET r == CHOOSE x \in rows : <<x[1], x[2]>> = k
        IN  <<r[3], r[4], r[5]>>]

\* even_ones with the ('q1', '1') entry staying in q1: a '1' read in q1 does
\* not toggle the parity back
even_ones_transitions_no_toggle ==
    Table({ <<"q0", "0", "q0", "0", "R">>,
            <<"q0", "1", "q1", "1", "R">>,
            <<"q0", "_", "accept", "_", "R">>,
            <<"q1", "0", "q1", "0", "R">>,
            <<"q1", "1", "q1", "1", "R">>,
            <<"q1", "_", "reject", "_", "R">> })

even_ones_transitions ==
    Table({ <<"q0", "0", "q0", "0", "R">>,
            <<"q0", "1", "q1", "1", "R">>,
            <<"q0", "_", "accept", "_", "R">>,
            <<"q1", "0", "q1", "0", "R">>,
            <<"q1", "1", "q0", "1", "R">>,
            <<"q1", "_", "reject", "_", "R">> })

even_ones ==
    MachineDef({"q0", "q1", "accept", "reject"}, {"0", "1"}, {"0", "1", "_"},
               even_ones_transitions, "q0", {"accept"}, {"reject"}, DefaultBlank)

\* equal_zeros_ones with the ('q0', '_') entry leading to accept: the empty
\* input is accepted
equal_zeros_ones_transitions_blank_accepts ==
    Table({ <<"q0", "0", "q1", "X", "R">>,
            <<"q0", "_", "accept", "_", "R">>,
            <<"q0", "1", "reject", "1", "R">>,
            <<"q1", "0", "q1", "0", "R">>,
            <<"q1", "Y", "q1", "Y", "R">>,
            <<"q1", "1", "q2", "Y", "L">>,
            <<"q1", "_", "reject", "_", "R">>,
            <<"q2", "0", "q2", "0", "L">>,
            <<"q2", "Y", "q2", "Y", "L">>,
            <<"q2", "X", "q0", "X", "R">>,
            <<"q0", "X", "q3", "X", "R">>,
            <<"q3", "X", "q3", "X", "R">>,
            <<"q3", "Y", "q3", "Y", "R">>,
            <<"q3", "_", "accept", "_", "R">> })

equal_zeros_ones_transitions ==
    Table({ <<"q0", "0", "q1", "X", "R">>,
            <<"q0", "_", "reject", "_", "R">>,
            <<"q0", "1", "reject", "1", "R">>,
            <<"q1", "0", "q1", "0", "R">>,
            <<"q1", "Y", "q1", "Y", "R">>,
            <<"q1", "1", "q2", "Y", "L">>,
            <<"q1", "_", "reject", "_", "R">>,
            <<"q2", "0", "q2", "0", "L">>,
            <<"q2", "Y", "q2", "Y", "L">>,
            <<"q2", "X", "q0", "X", "R">>,
            <<"q0", "X", "q3", "X", "R">>,
            <<"q3", "X", "q3", "X", "R">>,
            <<"q3", "Y", "q3", "Y", "R">>,
            <<"q3", "_", "accept", "_", "R">> })

equal_zeros_ones ==
    MachineDef({"q0", "q1", "q2", "q3", "q4", "accept", "reject"}, {"0", "1"},
               {"0", "1", "X", "Y", "_"}, equal_zeros_ones_transitions, "q0",
               {"accept"}, {"reject"}, DefaultBlank)

\* accept_all without its ('q0', 'b') entry
accept_all_transitions_no_b ==
    Table({ <<"q0", "0", "q0", "0", "R">>,
            <<"q0", "1", "q0", "1", "R">>,
            <<"q0", "a", "q0", "a", "R">>,
            <<"q0", "_", "accept", "_", "R">> })

accept_all_transitions ==
    Table({ <<"q0", "0", "q0", "0", "R">>,
            <<"q0", "1", "q0", "1", "R">>,
            <<"q0", "a", "q0", "a", "R">>,
            <<"q0", "b", "q0", "b", "R">>,
            <<"q0", "_", "accept", "_", "R">> })

accept_all ==
    MachineDef({"q0", "accept"}, {"0", "1", "a", "b"}, {"0", "1", "a", "b", "_"},
               accept_all_transitions, "q0", {"accept"}, {}, DefaultBlank)

\* create_example_machines: the dictionary of the three examples
Examples == {even_ones, equal_zeros_ones, accept_all}

(***************************************************************************)
(* Machine definitions a caller may supply besides the examples.  The      *)
(* constructor takes any sets and any dict; these families enumerate       *)
(* small ones.                                                             *)
(***************************************************************************)
SmallStates == {"s", "acc", "rej"}

SmallKeys == {<<"s", "a">>, <<"s", "_">>}

\* the dict with an entry for every key k whose choice c[k] is a triple
\* (the empty tuple stands for "no entry")
TableOf(c) == [k \in {x \in DOMAIN c : c[x] # <<>>} |-> c[k]]

SmallMachine(trans, init) ==
    MachineDef(SmallStates, {"a"}, {"a", "_"}, trans, init, {"acc"}, {"rej"},
               DefaultBlank)

\* one live state s over the tape alphabet {a, _}: every partial table whose
\* entries name declared states, tape symbols and directions, from every
\* initial state
SmallOptions == {<<>>} \cup (SmallStates \X {"a", "_"} \X {"L", "R"})

SmallMachines ==
    {SmallMachine(TableOf(c), i) : c \in [SmallKeys -> SmallOptions], i \in SmallStates}

\* tables whose contents the constructor does not validate: an undeclared
\* next state, a write symbol outside the tape alphabet, a direction that is
\* neither 'L' nor 'R'
MalformedOptions == {"s", "acc", "ghost"} \X {"a", "?"} \X {"L", "R", "N"}

MalformedMachines ==
    {SmallMachine(TableOf([k \in SmallKeys |-> IF k[2] = "a" THEN o ELSE b]), "s") :
        o \in MalformedOptions,
        b \in {<<>>, <<"acc", "_", "R">>, <<"s", "a", "L">>, <<"s", "_", "N">>}}

\* constructor arguments that may break the three validated conditions
UncheckedDefinitions ==
    {MachineDef({"q0", "q1", "accept", "reject"}, {"0", "1"}, {"0", "1", "_"},
                even_ones_transitions, i, acc, rej, DefaultBlank) :
        i \in {"q0", "zz"},
        acc \in {{"accept"}, {"accept", "ghost"}, {"accept", "reject"}},
        rej \in {{"reject"}, {"reject", "ghost"}}}

Definitions == Examples \cup SmallMachines \cup MalformedMachines \cup UncheckedDefinitions

(***************************************************************************)
(* Arguments of execute.                                                   *)
(***************************************************************************)
InputBound(m) ==
    IF m.alphabet = {"0", "1"} THEN MaxBinaryLen
    ELSE IF m.alphabet = {"0", "1", "a", "b"} THEN MaxQuadLen
    ELSE MaxUnaryLen

\* symbols that belong to no machine's input alphabet
BadSymbols == {"2", "3"}

LegalInputs(m) == Strings(m.alphabet, InputBound(m))

IllegalInputs(m) ==
    {w \in Strings(m.alphabet \cup BadSymbols, MaxBadLen) :
        \E i \in 1..Len(w) : w[i] \in BadSymbols}

Inputs(m) == LegalInputs(m) \cup IllegalInputs(m)

StepBounds(m) ==
    (-1..MaxStepBound) \cup (IF m \in Examples THEN {DefaultMaxSteps} ELSE {})

(***************************************************************************)
(* TuringMachine.__init__                                                  *)
(***************************************************************************)
\* the constructor with the disjointness check tested before the subset checks
ConstructionError_disjoint_first(m) ==
    IF m.initial_state \notin m.states
        THEN <<"ValueError", "Initial state not in states", m.initial_state>>
    ELSE IF m.accept_states \cap m.reject_states # {}
        THEN <<"ValueError", "Accept and reject states must be disjoint">>
    ELSE IF ~(m.accept_states \subseteq m.states)
        THEN <<"ValueError", "Accept states must be subset of states">>
    ELSE IF ~(m.reject_states \subseteq m.states)
        THEN <<"ValueError", "Reject states must be subset of states">>
    ELSE <<>>

\* the ValueError raised by the first failing check, <<>> when all pass
ConstructionError(m) ==
    IF m.initial_state \notin m.states
        THEN <<"ValueError", "Initial state not in states", m.initial_state>>
    ELSE IF ~(m.accept_states \subseteq m.states)
        THEN <<"ValueError", "Accept states must be subset of states">>
    ELSE IF ~(m.reject_states \subseteq m.states)
        THEN <<"ValueError", "Reject states must be subset of states">>
    ELSE IF m.accept_states \cap m.reject_states # {}
        THEN <<"ValueError", "Accept and reject states must be disjoint">>
    ELSE <<>>

\* the value of the result variable while no call has returned
NoResult ==
    [accepts |-> "unset", final_state |-> "unset", steps |-> 0,
     halted |-> FALSE, tape |-> <<>>]

\* the calls of execute that may be in progress on one machine
CallIds == {1, 2}

\* the locals of a call that has not begun
IdleFrame ==
    [pc |-> "ready", error |-> <<>>, input_string |-> <<>>, max_steps |-> 0,
     tape |-> <<>>, head_position |-> 0, current_state |-> "unset", steps |-> 0,
     current_symbol |-> "unset", result |-> NoResult]

\* nothing is constructed and no call has begun
Unstarted ==
    /\ pc = "construct"
    /\ error = <<>>
    /\ input_string = <<>>
    /\ max_steps = 0
    /\ tape = <<>>
    /\ head_position = 0
    /\ current_state = "unset"
    /\ steps = 0
    /\ current_symbol = "unset"
    /\ result = NoResult
    /\ calls = [i \in CallIds |-> IdleFrame]
    /\ cur = 1

Init ==
    /\ machine \in Definitions
    /\ Unstarted

Construct ==
    /\ pc = "construct"
    /\ error' = ConstructionError(machine)
    /\ pc' = IF ConstructionError(machine) = <<>> THEN "ready" ELSE "ctor_raised"
    /\ UNCHANGED <<machine, calls, cur, input_string, max_steps, tape, head_position,
                   current_state, steps, current_symbol, result>>

(***************************************************************************)
(* TuringMachine.execute                                                   *)
(***************************************************************************)
\* tape = list(input_string) if input_string else [self.blank_symbol]
InitialTape(w, blank) == IF w # <<>> THEN w ELSE <<blank>>

\* execute(w, n) is called on the constructed machine: the locals are
\* initialised
Begin(w, n) ==
    /\ pc = "ready"
    /\ input_string' = w
    /\ max_steps' = n
    /\ tape' = InitialTape(w, machine.blank_symbol)
    /\ head_position' = 0
    /\ current_state' = machine.initial_state
    /\ steps' = 0
    /\ current_symbol' = "unset"
    /\ result' = NoResult
    /\ error' = <<>>
    /\ pc' = "validate"
    /\ UNCHANGED <<machine, calls, cur>>

\* a call of execute with any input and step bound of the model
ExecuteBegin == \E w \in Inputs(machine), n \in StepBounds(machine) : Begin(w, n)

\* the validation loop reporting the last offending symbol instead of the first
FirstInvalid_last(w, alph) ==
    IF \A i \in 1..Len(w) : w[i] \in alph THEN 0
    ELSE CHOOSE i \in 1..Len(w) :
            /\ w[i] \notin alph
            /\ \A j \in (i + 1)..Len(w) : w[j] \in alph

\* the index of the first symbol of w outside alph, 0 when there is none
FirstInvalid(w, alph) ==
    IF \A i \in 1..Len(w) : w[i] \in alph THEN 0
    ELSE CHOOSE i \in 1..Len(w) :
            /\ w[i] \notin alph
            /\ \A j \in 1..(i - 1) : w[j] \in alph

ValidateInput ==
    /\ pc = "validate"
    /\ LET i == FirstInvalid(input_string, machine.alphabet)
       IN  IF i = 0
           THEN /\ pc' = "while"
                /\ error' = error
           ELSE /\ pc' = "raised"
                /\ error' = <<"ValueError", "Invalid input symbol", input_string[i]>>
    /\ UNCHANGED <<machine, calls, cur, input_string, max_steps, tape, head_position,
                   current_state, steps, current_symbol, result>>

\* the loop test off by one: while steps <= max_steps
LoopCondition_inclusive(n, max) == n <= max

\* while steps < max_steps
LoopCondition(n, max) == n < max

\* ''.join(tape): every symbol is one character, so the joined string has
\* the tape's symbols as its characters
Join(t) == [i \in 1..Len(t) |-> t[i]]

AcceptResult(state, n, t) ==
    [accepts |-> "True", final_state |-> state, steps |-> n, halted |-> TRUE,
     tape |-> Join(t)]

RejectResult(state, n, t) ==
    [accepts |-> "False", final_state |-> state, steps |-> n, halted |-> TRUE,
     tape |-> Join(t)]

\* the failed lookup counted as a step
ImplicitRejectResult_counts_step(state, n, t) ==
    [accepts |-> "False", final_state |-> state, steps |-> n + 1, halted |-> TRUE,
     tape |-> Join(t)]

ImplicitRejectResult(state, n, t) ==
    [accepts |-> "False", final_state |-> state, steps |-> n, halted |-> TRUE,
     tape |-> Join(t)]

\* the step-bound return flagged as halted
MaxStepsResult_halted(state, n, t) ==
    [accepts |-> "None", final_state |-> state, steps |-> n, halted |-> TRUE,
     tape |-> Join(t)]

MaxStepsResult(state, n, t) ==
    [accepts |-> "None", final_state |-> state, steps |-> n, halted |-> FALSE,
     tape |-> Join(t)]

\* the head of an iteration: the halting-state checks
HaltCheck ==
    /\ pc = "while"
    /\ LoopCondition(steps, max_steps)
    /\ IF current_state \in machine.accept_states
       THEN /\ result' = AcceptResult(current_state, steps, tape)
            /\ pc' = "returned"
       ELSE IF current_state \in machine.reject_states
       THEN /\ result' = RejectResult(current_state, steps, tape)
            /\ pc' = "returned"
       ELSE /\ result' = result
            /\ pc' = "extend"
    /\ UNCHANGED <<machine, calls, cur, error, input_string, max_steps, tape, head_position,
                   current_state, steps, current_symbol>>

\* the two tape-extension statements, run one after the other
\* the blank for a head left of the tape put at the right end
ExtendLeftTape_append(t, h, blank) == IF h < 0 THEN Append(t, blank) ELSE t

\* the left extension growing by two cells at a time
ExtendLeftTape_two(t, h, blank) == IF h < 0 THEN <<blank, blank>> \o t ELSE t

ExtendLeftTape(t, h, blank) == IF h < 0 THEN <<blank>> \o t ELSE t

ExtendLeftHead(h) == IF h < 0 THEN 0 ELSE h

\* the append made already when the head is on the last cell
ExtendRightTape_at_last(t, h, blank) == IF h >= Len(t) - 1 THEN Append(t, blank) ELSE t

ExtendRightTape(t, h, blank) == IF h >= Len(t) THEN Append(t, blank) ELSE t

ExtendedTape(t, h, blank) ==
    ExtendRightTape(ExtendLeftTape(t, h, blank), ExtendLeftHead(h), blank)

ExtendTape ==
    /\ pc = "extend"
    /\ tape' = ExtendedTape(tape, head_position, machine.blank_symbol)
    /\ head_position' = ExtendLeftHead(head_position)
    /\ pc' = "lookup"
    /\ UNCHANGED <<machine, calls, cur, error, input_string, max_steps, current_state, steps,
                   current_symbol, result>>

\* tape[head_position] of the 0-based list
Cell(t, h) == t[h + 1]

\* the key built in the wrong order: (current_symbol, current_state)
HasTransition_swapped(m, state, symbol) == <<symbol, state>> \in DOMAIN m.transitions

\* transition_key in self.transitions
HasTransition(m, state, symbol) == <<state, symbol>> \in DOMAIN m.transitions

\* read the symbol under the head and look the transition up
Lookup ==
    /\ pc = "lookup"
    /\ current_symbol' = Cell(tape, head_position)
    /\ IF ~HasTransition(machine, current_state, Cell(tape, head_position))
       THEN /\ result' = ImplicitRejectResult(current_state, steps, tape)
            /\ pc' = "returned"
       ELSE /\ result' = result
            /\ pc' = "apply"
    /\ UNCHANGED <<machine, calls, cur, error, input_string, max_steps, tape, head_position,
                   current_state, steps>>

\* the write left out
WriteCell_skip(t, h, symbol) == t

\* tape[head_position] = write_symbol
WriteCell(t, h, symbol) == [t EXCEPT ![h + 1] = symbol]

\* the direction test missing: whatever is not 'L' moves right
ValidDirection_any(d) == TRUE

ValidDirection(d) == d \in {"L", "R"}

\* the move to the right made two cells wide
MoveHead_two(h, d) == IF d = "L" THEN h - 1 ELSE h + 2

MoveHead(h, d) == IF d = "L" THEN h - 1 ELSE h + 1

\* the transition applied without counting the step
ApplyTransition_no_count ==
    /\ pc = "apply"
    /\ LET tr == machine.transitions[<<current_state, current_symbol>>]
       IN  /\ tape' = [tape EXCEPT ![head_position + 1] = tr[2]]
           /\ head_position' = IF tr[3] = "L" THEN head_position - 1
                               ELSE head_position + 1
           /\ current_state' = tr[1]
           /\ pc' = "while"
    /\ UNCHANGED <<machine, calls, cur, error, input_string, max_steps, steps, current_symbol,
                   result>>

\* apply the transition found: write, move, change state, count the step; a
\* direction that is neither 'L' nor 'R' raises after the write
ApplyTransition ==
    /\ pc = "apply"
    /\ LET tr == machine.transitions[<<current_state, current_symbol>>]
       IN  /\ tape' = WriteCell(tape, head_position, tr[2])
           /\ IF ValidDirection(tr[3])
              THEN /\ head_position' = MoveHead(head_position, tr[3])
                   /\ current_state' = tr[1]
                   /\ steps' = steps + 1
                   /\ error' = error
                   /\ pc' = "while"
              ELSE /\ error' = <<"ValueError", "Invalid direction", tr[3]>>
                   /\ pc' = "raised"
                   /\ UNCHANGED <<head_position, current_state, steps>>
    /\ UNCHANGED <<machine, calls, cur, input_string, max_steps, current_symbol, result>>

\* the loop condition fails: the return after the loop
MaxStepsReturn ==
    /\ pc = "while"
    /\ ~LoopCondition(steps, max_steps)
    /\ result' = MaxStepsResult(current_state, steps, tape)
    /\ pc' = "returned"
    /\ UNCHANGED <<machine, calls, cur, error, input_string, max_steps, tape, head_position,
                   current_state, steps, current_symbol>>

Next ==
    \/ Construct
    \/ ExecuteBegin
    \/ ValidateInput
    \/ HaltCheck
    \/ ExtendTape
    \/ Lookup
    \/ ApplyTransition
    \/ MaxStepsReturn

Spec == Init /\ [][Next]_vars

\* execute is synchronous and single-threaded: a call that has a next
\* statement runs it
FairSpec == Spec /\ WF_vars(Next)

TypeOK ==
    /\ machine \in Definitions
    /\ pc \in {"construct", "ctor_raised", "ready", "validate", "while", "extend",
               "lookup", "apply", "returned", "raised"}
    /\ steps \in Nat
    /\ head_position \in Int
    /\ result.halted \in BOOLEAN

(***************************************************************************)
(* Vocabulary of the properties.                                           *)
(***************************************************************************)
Returned == pc = "returned"

\* the call has begun: the locals and the arguments hold this run's values
InRun == pc \in {"validate", "while", "extend", "lookup", "apply", "returned", "raised"}

HaltingStates(m) == m.accept_states \cup m.reject_states

LegalInput(m, w) == \A i \in 1..Len(w) : w[i] \in m.alphabet

\* w = 0^n 1^n for some n >= 1
IsBalanced(w) ==
    \E n \in 1..Len(w) :
        /\ Len(w) = 2 * n
        /\ \A i \in 1..n : w[i] = "0"
        /\ \A i \in (n + 1)..(2 * n) : w[i] = "1"

\* the number of '1' symbols of w
CountOnes(w) == Cardinality({i \in 1..Len(w) : w[i] = "1"})

\* a returned record is a decision on a run with the default step bound
DefaultRunOf(m) == Returned /\ machine = m /\ max_steps = DefaultMaxSteps

(***************************************************************************)
(* C1: equal_zeros_ones accepts every input 0^n 1^n with n >= 1: a run     *)
(* with the default step bound on such an input returns accepts True with  *)
(* halted True.                                                            *)
(***************************************************************************)
C1_BalancedAccepted ==
    (DefaultRunOf(equal_zeros_ones) /\ IsBalanced(input_string))
        => (result.accepts = "True" /\ result.halted)

(***************************************************************************)
(* C2: equal_zeros_ones never accepts an input over {0,1} that is not      *)
(* 0^n 1^n with n >= 1: a run with the default step bound on such an input *)
(* raises nothing and returns accepts False with halted True.              *)
(***************************************************************************)
C2_UnbalancedRejected ==
    /\ (DefaultRunOf(equal_zeros_ones) /\ ~IsBalanced(input_string))
            => (result.accepts = "False" /\ result.halted)
    /\ (machine = equal_zeros_ones /\ InRun /\ LegalInput(machine, input_string))
            => pc # "raised"

C2_Witness ==
    /\ DefaultRunOf(equal_zeros_ones)
    /\ input_string = <<"0", "1", "1", "0">>
    /\ result.accepts = "False"
    /\ result.final_state = "q0"

(***************************************************************************)
(* C3: even_ones decides parity: a run with the default step bound returns *)
(* accepts True when the input holds an even number of '1' symbols and     *)
(* accepts False when the number is odd, halted True in both cases.        *)
(***************************************************************************)
C3_ParityDecided ==
    DefaultRunOf(even_ones) =>
        /\ result.halted
        /\ result.accepts = (IF CountOnes(input_string) % 2 = 0 THEN "True" ELSE "False")

C3_Witness ==
    /\ DefaultRunOf(even_ones)
    /\ input_string = <<"1", "0", "1">>
    /\ result.accepts = "True"
    /\ result.final_state = "accept"

(***************************************************************************)
(* C4: accept_all returns accepts True for every string over {0,1,a,b},    *)
(* the empty string included, with the default step bound.                 *)
(***************************************************************************)
C4_AllAccepted ==
    /\ DefaultRunOf(accept_all) => (result.accepts = "True" /\ result.halted)
    /\ (machine = accept_all /\ InRun /\ LegalInput(machine, input_string))
            => pc # "raised"

C4_Witness ==
    /\ DefaultRunOf(accept_all)
    /\ input_string = <<"a", "1", "b">>
    /\ result.accepts = "True"
    /\ result.steps = 4

(***************************************************************************)
(* C5: a run whose current state is a member of accept_states (resp.       *)
(* reject_states) returns accepts True (resp. False) with halted True; a   *)
(* record with accepts None never has a final_state that is an accept or   *)
(* reject state.                                                           *)
(***************************************************************************)
C5_HaltingStateDecides ==
    Returned =>
        /\ current_state \in machine.accept_states
                => (result.accepts = "True" /\ result.halted)
        /\ current_state \in machine.reject_states
                => (result.accepts = "False" /\ result.halted)
        /\ result.accepts = "None"
                => result.final_state \notin HaltingStates(machine)

(***************************************************************************)
(* C6: when the initial state is an accept (resp. reject) state, every     *)
(* returned record, whatever the legal input and the step bound, has       *)
(* accepts True (resp. False), steps 0, halted True and the tape in its    *)
(* initialised form.                                                       *)
(***************************************************************************)
C6_InitialHaltingState ==
    (Returned /\ machine.initial_state \in HaltingStates(machine)) =>
        /\ result.accepts =
              (IF machine.initial_state \in machine.accept_states THEN "True" ELSE "False")
        /\ result.steps = 0
        /\ result.halted
        /\ result.tape = InitialTape(input_string, machine.blank_symbol)

(***************************************************************************)
(* C7 as claimed: for every integer max_steps the step counter never       *)
(* exceeds max_steps during the run and the returned steps is at most      *)
(* max_steps.                                                              *)
(***************************************************************************)
C7_StepsWithinAnyBound ==
    /\ InRun => steps <= max_steps
    /\ Returned => result.steps <= max_steps

(***************************************************************************)
(* C7 as amended: for every max_steps >= 0 the step counter never exceeds  *)
(* max_steps during the run and the returned steps is at most max_steps;   *)
(* for a negative max_steps no transition is applied and steps stays 0.    *)
(***************************************************************************)
C7_StepsWithinBound ==
    /\ (InRun /\ max_steps >= 0) => steps <= max_steps
    /\ (Returned /\ max_steps >= 0) => result.steps <= max_steps
    /\ (InRun /\ max_steps < 0) => steps = 0
    /\ (Returned /\ max_steps < 0) => result.steps = 0

C7_Witness ==
    /\ Returned
    /\ max_steps = 2
    /\ result.steps = 2
    /\ result.accepts = "None"

(***************************************************************************)
(* C8: in every returned record halted is True exactly when accepts is     *)
(* True or False, and halted is False exactly when accepts is None.        *)
(***************************************************************************)
C8_HaltedIffDecided ==
    Returned =>
        /\ result.accepts \in {"True", "False", "None"}
        /\ result.halted <=> result.accepts \in {"True", "False"}
        /\ ~result.halted <=> result.accepts = "None"

C8_Witness ==
    /\ Returned
    /\ result.accepts = "None"
    /\ ~result.halted
    /\ result.steps > 0

(***************************************************************************)
(* C9: a machine whose single live state has, on every tape symbol, a      *)
(* transition back to that state (writing a tape symbol, moving 'L' or     *)
(* 'R') never halts: for every legal input and every max_steps >= 0 the    *)
(* run raises nothing and returns accepts None, halted False, steps equal  *)
(* to max_steps and final_state the live state.                            *)
(***************************************************************************)
Cycler(m) ==
    /\ m.states \ HaltingStates(m) = {m.initial_state}
    /\ m.alphabet \cup {m.blank_symbol} \subseteq m.tape_alphabet
    /\ \A sym \in m.tape_alphabet :
        /\ <<m.initial_state, sym>> \in DOMAIN m.transitions
        /\ m.transitions[<<m.initial_state, sym>>][1] = m.initial_state
        /\ m.transitions[<<m.initial_state, sym>>][2] \in m.tape_alphabet
        /\ m.transitions[<<m.initial_state, sym>>][3] \in {"L", "R"}

C9_CyclerUndetermined ==
    (Cycler(machine) /\ InRun /\ LegalInput(machine, input_string) /\ max_steps >= 0) =>
        /\ pc # "raised"
        /\ Returned =>
            /\ result.accepts = "None"
            /\ ~result.halted
            /\ result.steps = max_steps
            /\ result.final_state = machine.initial_state

C9_Witness ==
    /\ Cycler(machine)
    /\ Returned
    /\ input_string = <<"a">>
    /\ max_steps = 3
    /\ result.steps = 3
    /\ result.accepts = "None"
    /\ Len(result.tape) = 3

(***************************************************************************)
(* C10: implicit reject.  The lookup is only made in a non-halting state;  *)
(* when no transition is defined for (current state, symbol under the      *)
(* head) the call returns at once accepts False, halted True, final_state  *)
(* the current state and steps the count of transitions applied so far,    *)
(* with the tape and the counter left as they are and nothing raised.      *)
(***************************************************************************)
C10_ImplicitReject ==
    [][ (pc = "lookup" /\
         <<current_state, Cell(tape, head_position)>> \notin DOMAIN machine.transitions)
        => /\ current_state \notin HaltingStates(machine)
           /\ pc' = "returned"
           /\ result' = [accepts |-> "False", final_state |-> current_state,
                         steps |-> steps, halted |-> TRUE, tape |-> tape]
           /\ tape' = tape
           /\ steps' = steps
           /\ current_state' = current_state
           /\ error' = <<>> ]_vars

C10_Witness ==
    /\ Returned
    /\ <<current_state, current_symbol>> \notin DOMAIN machine.transitions
    /\ current_state \notin HaltingStates(machine)
    /\ result.accepts = "False"
    /\ result.steps = 3
    /\ result.tape = <<"X", "Y">>

(***************************************************************************)
(* C11: input validation precedes simulation.  Once the validation of an   *)
(* input holding a symbol outside the input alphabet is over, the call has *)
(* raised the invalid-input-symbol error naming the first such symbol; no  *)
(* record is returned, no transition has been applied (the counter is 0,   *)
(* the state is the initial state, the tape is the initialised one), also  *)
(* when the initial state is a halting state; the machine definition is    *)
(* never changed.                                                          *)
(***************************************************************************)
C11_InvalidInputRaises ==
    /\ [](( InRun /\ pc # "validate" /\ ~LegalInput(machine, input_string) ) =>
            /\ pc = "raised"
            /\ error[1] = "ValueError" /\ error[2] = "Invalid input symbol"
            /\ \E i \in 1..Len(input_string) :
                /\ error[3] = input_string[i]
                /\ input_string[i] \notin machine.alphabet
                /\ \A j \in 1..(i - 1) : input_string[j] \in machine.alphabet
            /\ result = NoResult
            /\ steps = 0
            /\ current_state = machine.initial_state
            /\ tape = input_string)
    /\ [][machine' = machine]_vars

C11_Witness ==
    /\ pc = "raised"
    /\ machine.initial_state \in machine.accept_states
    /\ input_string = <<"3", "2">>
    /\ error = <<"ValueError", "Invalid input symbol", "3">>
    /\ max_steps = 2

(***************************************************************************)
(* C12: construction succeeds exactly when the initial state is in states, *)
(* accept_states and reject_states are subsets of states and the two are   *)
(* disjoint; otherwise the constructor raises the error of the first       *)
(* violated condition, in the order initial state, accept subset, reject   *)
(* subset, disjointness, and no machine is available to execute.           *)
(***************************************************************************)
C12_ConstructionValidated ==
    pc # "construct" =>
        LET initOk     == machine.initial_state \in machine.states
            acceptOk   == \A q \in machine.accept_states : q \in machine.states
            rejectOk   == \A q \in machine.reject_states : q \in machine.states
            disjointOk == \A q \in machine.accept_states : q \notin machine.reject_states
        IN  /\ (pc # "ctor_raised") <=> (initOk /\ acceptOk /\ rejectOk /\ disjointOk)
            /\ pc = "ctor_raised" =>
                /\ result = NoResult
                /\ error[1] = "ValueError"
                /\ error[2] =
                     (IF ~initOk THEN "Initial state not in states"
                      ELSE IF ~acceptOk THEN "Accept states must be subset of states"
                      ELSE IF ~rejectOk THEN "Reject states must be subset of states"
                      ELSE "Accept and reject states must be disjoint")

C12_Witness ==
    /\ pc = "ctor_raised"
    /\ machine.initial_state = "q0"
    /\ machine.accept_states = {"accept", "reject"}
    /\ machine.reject_states = {"reject", "ghost"}
    /\ error = <<"ValueError", "Reject states must be subset of states">>

(***************************************************************************)
(* C16 as claimed: the tape extension is the step that follows the halting *)
(* checks of a non-halting iteration and precedes the read; a head left of *)
(* the first cell prepends one blank and re-anchors the head to 0, a head  *)
(* at or past the last cell appends one blank, and otherwise the tape is   *)
(* left as it is.                                                          *)
(***************************************************************************)
C16_ExtensionAtOrPastLast ==
    [][ pc = "extend" =>
          /\ pc' = "lookup"
          /\ IF head_position < 0
             THEN tape' = <<machine.blank_symbol>> \o tape /\ head_position' = 0
             ELSE IF head_position >= Len(tape) - 1
             THEN tape' = Append(tape, machine.blank_symbol)
                  /\ head_position' = head_position
             ELSE tape' = tape /\ head_position' = head_position ]_vars

(***************************************************************************)
(* C16 as amended: the same, with the append made only when the head is    *)
(* past the last cell (head_position >= len(tape)); a head on the last     *)
(* cell leaves the tape as it is.  The halting checks of a non-halting     *)
(* iteration lead to the extension with the tape untouched, and the read   *)
(* that follows takes the cell under the head of the extended tape.        *)
(***************************************************************************)
C16_TapeExtension ==
    /\ [][ pc = "extend" =>
             /\ pc' = "lookup"
             /\ IF head_position < 0
                THEN tape' = <<machine.blank_symbol>> \o tape /\ head_position' = 0
                ELSE IF head_position >= Len(tape)
                THEN tape' = Append(tape, machine.blank_symbol)
                     /\ head_position' = head_position
                ELSE tape' = tape /\ head_position' = head_position ]_vars
    /\ [][ (pc = "while" /\ steps < max_steps
                /\ current_state \notin HaltingStates(machine))
             => (pc' = "extend" /\ tape' = tape /\ head_position' = head_position) ]_vars
    /\ [][ pc = "lookup" =>
             (tape' = tape /\ current_symbol' = tape[head_position + 1]) ]_vars

\* a blank has been prepended in the second iteration and the head re-anchored
C16_Witness ==
    /\ pc = "lookup"
    /\ steps = 1
    /\ head_position = 0
    /\ input_string = <<"a", "a">>
    /\ Len(tape) = 3
    /\ tape[1] = machine.blank_symbol

\* max(1, len(w)): the length of the initialised tape
InitialLength(w) == IF Len(w) > 1 THEN Len(w) ELSE 1

(***************************************************************************)
(* C17 as claimed: no step of a run lengthens the tape by more than one    *)
(* cell; in every state of a run the tape holds at most                    *)
(* max(1, len(input)) + steps cells, and so does the tape of the returned  *)
(* record with its steps, hence at most max(1, len(input)) + max_steps.    *)
(***************************************************************************)
C17_GrowthWithinAnyBound ==
    /\ []( InRun => Len(tape) <= InitialLength(input_string) + steps )
    /\ []( Returned =>
            /\ Len(result.tape) <= InitialLength(input_string) + result.steps
            /\ Len(result.tape) <= InitialLength(input_string) + max_steps )
    /\ [][ InRun => Len(tape') <= Len(tape) + 1 ]_vars

(***************************************************************************)
(* C17 as amended: no step of a run lengthens the tape by more than one    *)
(* cell (the extension never prepends and appends together) and none       *)
(* shortens it; in every state of a run the tape holds at most             *)
(* max(1, len(input)) + steps cells, and so does the tape of the returned  *)
(* record with its steps, which for max_steps >= 0 is at most              *)
(* max(1, len(input)) + max_steps.                                         *)
(***************************************************************************)

C17_BoundedTapeGrowth ==
    /\ []( InRun => Len(tape) <= InitialLength(input_string) + steps )
    /\ []( Returned =>
            /\ Len(result.tape) <= InitialLength(input_string) + result.steps
            /\ max_steps >= 0 =>
                 Len(result.tape) <= InitialLength(input_string) + max_steps )
    /\ [][ InRun => (Len(tape) <= Len(tape') /\ Len(tape') <= Len(tape) + 1) ]_vars

\* the bound is met: one step to the left, then a prepend and a failed lookup
C17_Witness ==
    /\ Returned
    /\ input_string = <<"a">>
    /\ result.steps = 1
    /\ Len(result.tape) = 2
    /\ result.tape[1] = machine.blank_symbol

(***************************************************************************)
(* C18: a transition whose direction is neither 'L' nor 'R' raises the     *)
(* invalid-direction error at the step that applies it and not earlier.    *)
(* The constructor accepts such a table; applying an entry raises exactly  *)
(* when its direction is invalid; the only other raise of a call is the    *)
(* input validation, so a run that never applies the entry returns its     *)
(* record; a raised call returns no record.                                *)
(***************************************************************************)
HasInvalidDirection(m) ==
    \E k \in DOMAIN m.transitions : m.transitions[k][3] \notin {"L", "R"}

C18_InvalidDirectionRaises ==
    /\ []( (HasInvalidDirection(machine) /\ pc # "construct"
                /\ machine.initial_state \in machine.states
                /\ machine.accept_states \subseteq machine.states
                /\ machine.reject_states \subseteq machine.states
                /\ machine.accept_states \cap machine.reject_states = {})
            => pc # "ctor_raised" )
    /\ [][ pc = "apply" =>
            LET d == machine.transitions[<<current_state, current_symbol>>][3]
            IN  IF d \notin {"L", "R"}
                THEN /\ pc' = "raised"
                     /\ error' = <<"ValueError", "Invalid direction", d>>
                     /\ result' = NoResult
                ELSE /\ pc' = "while"
                     /\ error' = <<>> ]_vars
    /\ [][ (pc' = "raised" /\ pc # "raised") =>
            \/ pc = "validate"
            \/ /\ pc = "apply"
               /\ machine.transitions[<<current_state, current_symbol>>][3]
                      \notin {"L", "R"} ]_vars
    /\ []( pc = "raised" => result = NoResult )

\* the error is raised at the second transition of the run, the first one
\* having been applied
C18_Witness ==
    /\ pc = "raised"
    /\ error = <<"ValueError", "Invalid direction", "N">>
    /\ steps = 1
    /\ current_symbol = machine.blank_symbol
    /\ input_string = <<"a">>

(***************************************************************************)
(* C19 as claimed: a transition naming a next state outside states or a    *)
(* write symbol outside tape_alphabet is accepted by the constructor, and  *)
(* a run that applies it ends in an error instead of returning a record.   *)
(* An undeclared state or symbol enters a run only through such a          *)
(* transition (the initial state is declared, the input and the blank are  *)
(* tape symbols), so no returned record would show one.                    *)
(***************************************************************************)
HasUndeclaredTarget(m) ==
    \E k \in DOMAIN m.transitions :
        \/ m.transitions[k][1] \notin m.states
        \/ m.transitions[k][2] \notin m.tape_alphabet

ConstructorConditions(m) ==
    /\ m.initial_state \in m.states
    /\ m.accept_states \subseteq m.states
    /\ m.reject_states \subseteq m.states
    /\ m.accept_states \cap m.reject_states = {}

C19_InvalidReferenceRaises ==
    /\ (HasUndeclaredTarget(machine) /\ ConstructorConditions(machine)
            /\ pc # "construct") => pc # "ctor_raised"
    /\ Returned =>
        /\ result.final_state \in machine.states
        /\ \A i \in 1..Len(result.tape) : result.tape[i] \in machine.tape_alphabet

(***************************************************************************)
(* C19 as amended: such a machine is constructed without error, and a run  *)
(* that applies the transition raises nothing on that account.  An entry   *)
(* with a direction 'L' or 'R' is applied like any other (its symbol is    *)
(* written, its state becomes the current state, the step is counted),     *)
(* the only errors of a call are the invalid input symbol and the invalid  *)
(* direction, and a record whose final_state is undeclared never has       *)
(* accepts True.                                                           *)
(***************************************************************************)
C19_InvalidReferenceApplied ==
    /\ []( (HasUndeclaredTarget(machine) /\ ConstructorConditions(machine)
                /\ pc # "construct") => pc # "ctor_raised" )
    /\ [][ (pc = "apply" /\
            machine.transitions[<<current_state, current_symbol>>][3] \in {"L", "R"})
           => LET tr == machine.transitions[<<current_state, current_symbol>>]
              IN  /\ pc' = "while"
                  /\ error' = <<>>
                  /\ current_state' = tr[1]
                  /\ tape' = [tape EXCEPT ![head_position + 1] = tr[2]]
                  /\ steps' = steps + 1 ]_vars
    /\ []( pc = "raised" => error[2] \in {"Invalid input symbol", "Invalid direction"} )
    /\ []( (Returned /\ result.final_state \notin machine.states)
                => result.accepts # "True" )

\* a record returned after the undeclared state was entered and the
\* undeclared symbol written
C19_Witness ==
    /\ Returned
    /\ result.final_state = "ghost"
    /\ result.final_state \notin machine.states
    /\ result.tape = <<"?", "_">>
    /\ result.steps = 1
    /\ result.accepts = "False"

(***************************************************************************)
(* The ideal machine of C20: a two-way-infinite tape, given as the finite  *)
(* map of the cells set so far (every other cell holds the blank), with    *)
(* an integer head.  Cell 0 is the first input symbol.                     *)
(***************************************************************************)
IdealStart(m, w) ==
    [state |-> m.initial_state, head |-> 0, steps |-> 0,
     cells |-> [i \in 0..(Len(w) - 1) |-> w[i + 1]]]

IdealCell(m, c, i) == IF i \in DOMAIN c.cells THEN c.cells[i] ELSE m.blank_symbol

IdealCanStep(m, c) ==
    /\ c.state \notin HaltingStates(m)
    /\ <<c.state, IdealCell(m, c, c.head)>> \in DOMAIN m.transitions
    /\ m.transitions[<<c.state, IdealCell(m, c, c.head)>>][3] \in {"L", "R"}

\* one transition of the ideal machine; a configuration that cannot step stays
IdealStep(m, c) ==
    IF ~IdealCanStep(m, c) THEN c
    ELSE LET tr == m.transitions[<<c.state, IdealCell(m, c, c.head)>>]
         IN  [state |-> tr[1],
              head  |-> IF tr[3] = "L" THEN c.head - 1 ELSE c.head + 1,
              steps |-> c.steps + 1,
              cells |-> [i \in DOMAIN c.cells \cup {c.head} |->
                            IF i = c.head THEN tr[2] ELSE c.cells[i]]]

RECURSIVE IdealConfig(_, _, _)
\* the ideal machine after k transitions on input w
IdealConfig(m, w, k) ==
    IF k = 0 THEN IdealStart(m, w) ELSE IdealStep(m, IdealConfig(m, w, k - 1))

\* the verdict of the ideal machine stopped in configuration c under bound n
IdealVerdict(m, c, n) ==
    IF ~(c.steps < n) THEN "None"
    ELSE IF c.state \in m.accept_states THEN "True"
    ELSE IF c.state \in m.reject_states THEN "False"
    ELSE IF <<c.state, IdealCell(m, c, c.head)>> \notin DOMAIN m.transitions THEN "False"
    ELSE "running"

\* the list t with the head at h is the segment of the ideal tape that starts
\* off cells left of cell 0, and every cell outside it is blank
IsWindow(m, c, t, h, off) ==
    /\ h - off = c.head
    /\ \A i \in 1..Len(t) : t[i] = IdealCell(m, c, i - 1 - off)
    /\ \A j \in DOMAIN c.cells :
          (j + off < 0 \/ j + off >= Len(t)) => c.cells[j] = m.blank_symbol

(***************************************************************************)
(* C20: the growable list refines the ideal tape.  In every state of a     *)
(* run that has not raised, the ideal machine has made the same number of  *)
(* transitions and is in the same state, and the list is a window of the   *)
(* ideal tape with the head on the same cell (a prepend shifts the offset  *)
(* and keeps the contents); the symbol read is the ideal cell under the    *)
(* head; a transition changes only the cell under the head; the returned   *)
(* record has the ideal machine's verdict, final state and steps.          *)
(***************************************************************************)
C20_WindowRefinesIdealTape ==
    /\ []( (InRun /\ pc # "raised") =>
            LET c == IdealConfig(machine, input_string, steps)
            IN  /\ c.steps = steps
                /\ c.state = current_state
                /\ \E off \in 0..steps : IsWindow(machine, c, tape, head_position, off)
                /\ pc = "apply" => current_symbol = IdealCell(machine, c, c.head)
                /\ Returned =>
                    /\ result.accepts = IdealVerdict(machine, c, max_steps)
                    /\ result.final_state = c.state
                    /\ result.steps = c.steps
                    /\ \E off \in 0..steps :
                          IsWindow(machine, c, result.tape, head_position, off) )
    /\ [][ pc = "apply" =>
            /\ Len(tape') = Len(tape)
            /\ \A i \in 1..Len(tape) : i # head_position + 1 => tape'[i] = tape[i] ]_vars

\* two steps to the left from a two-symbol input: the list has been shifted
\* by one cell and the ideal head is on cell -2
C20_Witness ==
    /\ pc = "while"
    /\ steps = 2
    /\ input_string = <<"a", "a">>
    /\ head_position = -1
    /\ tape = <<"_", "_", "a">>
    /\ IdealConfig(machine, input_string, steps).head = -2

(***************************************************************************)
(* C15: execute always terminates.  Every call that has begun eventually   *)
(* returns a record or raises; every statement of a call lowers a          *)
(* non-negative measure that starts at 4 * max(max_steps, 0) + 5, and the  *)
(* number of applied transitions never exceeds max(max_steps, 0).          *)
(***************************************************************************)
Finished == pc \in {"returned", "raised"}

Budget == IF max_steps > 0 THEN max_steps ELSE 0

Variant ==
    IF Finished THEN 0
    ELSE 4 * (Budget - steps) + 1 +
         (CASE pc = "validate" -> 4
            [] pc = "while"    -> 3
            [] pc = "extend"   -> 2
            [] pc = "lookup"   -> 1
            [] OTHER           -> 0)

C15_ExecuteTerminates ==
    /\ (pc = "validate") ~> Finished
    /\ [][ (InRun /\ ~Finished) => (Variant' < Variant /\ Variant' >= 0) ]_vars
    /\ []( InRun => (steps <= Budget /\ Variant <= 4 * Budget + 5) )

\* a machine that cycles for ever has returned after max_steps transitions
C15_Witness ==
    /\ Returned
    /\ Cycler(machine)
    /\ max_steps = 4
    /\ result.steps = 4
    /\ result.accepts = "None"

(***************************************************************************)
(* Several calls of execute on one machine.  execute keeps the tape, the   *)
(* head, the state and the step count in locals and reads the definition   *)
(* through self; calls run one after another or, on threads, with their    *)
(* statements interleaved.  The running call's locals are the variables    *)
(* pc .. result; Switch suspends it and resumes another call.              *)
(***************************************************************************)
MaxCallLen == 1
MaxCallSteps == 2

\* cyclers, deciders and implicit rejecters that erase and move left on 'a',
\* and the three example machines
CallMachines ==
    Examples \cup
    {SmallMachine(TableOf([k \in SmallKeys |->
                              IF k[2] = "a" THEN <<"s", "_", "L">> ELSE b]), "s") :
        b \in SmallOptions}

CallInputs(m) == Strings(m.alphabet, MaxCallLen) \cup {<<"2">>}

CallStepBounds == 0..MaxCallSteps

\* the locals of the running call
Frame ==
    [pc |-> pc, error |-> error, input_string |-> input_string,
     max_steps |-> max_steps, tape |-> tape, head_position |-> head_position,
     current_state |-> current_state, steps |-> steps,
     current_symbol |-> current_symbol, result |-> result]

\* the step counter kept on the object: a resumed call finds the count of the
\* call that ran last
Resumed_shared_steps(f) == [f EXCEPT !.steps = steps]

\* the outcome kept on the object: a resumed call finds the outcome of the
\* call that ran last
Resumed_shared_result(f) == [f EXCEPT !.result = result]

\* what a resumed call finds in its locals: what it left there
Resumed(f) == f

\* the running call is suspended between two statements and another call of
\* the same object runs
Switch ==
    /\ pc \notin {"construct", "ctor_raised"}
    /\ \E j \in CallIds \ {cur} :
        /\ calls' = [calls EXCEPT ![cur] = Frame, ![j] = IdleFrame]
        /\ cur' = j
        /\ LET f == Resumed(calls[j])
           IN  /\ pc' = f.pc
               /\ error' = f.error
               /\ input_string' = f.input_string
               /\ max_steps' = f.max_steps
               /\ tape' = f.tape
               /\ head_position' = f.head_position
               /\ current_state' = f.current_state
               /\ steps' = f.steps
               /\ current_symbol' = f.current_symbol
               /\ result' = f.result
    /\ UNCHANGED machine

ExecuteCall == \E w \in CallInputs(machine), n \in CallStepBounds : Begin(w, n)

CallsInit ==
    /\ machine \in CallMachines
    /\ Unstarted

CallsNext ==
    \/ Construct
    \/ ExecuteCall
    \/ ValidateInput
    \/ HaltCheck
    \/ ExtendTape
    \/ Lookup
    \/ ApplyTransition
    \/ MaxStepsReturn
    \/ Switch

CallsSpec == CallsInit /\ [][CallsNext]_vars

\* the locals of call i, running or suspended
View(i) == IF cur = i THEN Frame ELSE calls[i]

Begun(f) ==
    f.pc \in {"validate", "while", "extend", "lookup", "apply", "returned", "raised"}

Done(f) == f.pc \in {"returned", "raised"}

SameArguments(f, g) ==
    /\ Begun(f) /\ Begun(g)
    /\ f.input_string = g.input_string
    /\ f.max_steps = g.max_steps

\* execute(w, n) on machine m run alone, one statement at a time, on a frame
\* of its own
StartFrame(m, w, n) ==
    [pc |-> "validate", error |-> <<>>, input_string |-> w, max_steps |-> n,
     tape |-> InitialTape(w, m.blank_symbol), head_position |-> 0,
     current_state |-> m.initial_state, steps |-> 0,
     current_symbol |-> "unset", result |-> NoResult]

StepFrame(m, f) ==
    CASE f.pc = "validate" ->
            LET i == FirstInvalid(f.input_string, m.alphabet)
            IN  IF i = 0 THEN [f EXCEPT !.pc = "while"]
                ELSE [f EXCEPT !.pc = "raised",
                               !.error = <<"ValueError", "Invalid input symbol",
                                           f.input_string[i]>>]
      [] f.pc = "while" ->
            IF ~LoopCondition(f.steps, f.max_steps)
            THEN [f EXCEPT !.pc = "returned",
                           !.result = MaxStepsResult(f.current_state, f.steps, f.tape)]
            ELSE IF f.current_state \in m.accept_states
            THEN [f EXCEPT !.pc = "returned",
                           !.result = AcceptResult(f.current_state, f.steps, f.tape)]
            ELSE IF f.current_state \in m.reject_states
            THEN [f EXCEPT !.pc = "returned",
                           !.result = RejectResult(f.current_state, f.steps, f.tape)]
            ELSE [f EXCEPT !.pc = "extend"]
      [] f.pc = "extend" ->
            [f EXCEPT !.pc = "lookup",
                      !.tape = ExtendedTape(f.tape, f.head_position, m.blank_symbol),
                      !.head_position = ExtendLeftHead(f.head_position)]
      [] f.pc = "lookup" ->
            LET sym == Cell(f.tape, f.head_position)
            IN  IF ~HasTransition(m, f.current_state, sym)
                THEN [f EXCEPT !.pc = "returned",
                               !.current_symbol = sym,
                               !.result = ImplicitRejectResult(f.current_state,
                                                               f.steps, f.tape)]
                ELSE [f EXCEPT !.pc = "apply", !.current_symbol = sym]
      [] f.pc = "apply" ->
            LET tr == m.transitions[<<f.current_state, f.current_symbol>>]
                g  == [f EXCEPT !.tape = WriteCell(f.tape, f.head_position, tr[2])]
            IN  IF ValidDirection(tr[3])
                THEN [g EXCEPT !.pc = "while",
                               !.head_position = MoveHead(f.head_position, tr[3]),
                               !.current_state = tr[1],
                               !.steps = f.steps + 1]
                ELSE [g EXCEPT !.pc = "raised",
                               !.error = <<"ValueError", "Invalid direction", tr[3]>>]
      [] OTHER -> f

RECURSIVE RunFrom(_, _)
RunFrom(m, f) == IF Done(f) THEN f ELSE RunFrom(m, StepFrame(m, f))

RunAlone(m, w, n) == RunFrom(m, StartFrame(m, w, n))

\* C13 (determinism): two calls of execute on the same machine with the same
\* input and the same step bound that are at the same statement after the
\* same number of steps have the same state, tape, head and step count (and
\* every other local), and once both have finished they have returned the
\* same Outcome Record or raised the same error.
C13_Determinism ==
    LET a == View(1)
        b == View(2)
    IN  SameArguments(a, b) =>
            /\ (a.pc = b.pc /\ a.steps = b.steps) => a = b
            /\ (Done(a) /\ Done(b)) =>
                    /\ a.pc = b.pc
                    /\ a.result = b.result
                    /\ a.error = b.error

\* two calls with the same arguments have both returned after two steps on a
\* one-symbol input
C13_Witness ==
    /\ SameArguments(View(1), View(2))
    /\ View(1).pc = "returned" /\ View(2).pc = "returned"
    /\ Len(View(1).input_string) = 1
    /\ View(1).result.steps = 2
    /\ View(2).result.steps = 2

\* C14 (run isolation): execute never changes the machine definition; a
\* statement of one call, and the suspension of one call for another, leave
\* the locals of every other call as they were; and every call that has
\* finished, however its statements were interleaved with another call's,
\* has the outcome (Outcome Record or error) of the same call run alone.
C14_RunIsolation ==
    /\ [][machine' = machine]_vars
    /\ [][\A i \in CallIds : (i # cur \/ cur' # cur) => View(i)' = View(i)]_vars
    /\ [](\A i \in CallIds :
            Done(View(i)) =>
                View(i) = RunAlone(machine, View(i).input_string,
                                   View(i).max_steps))

\* call 1 has returned after a step while call 2, with another input, is
\* suspended in the middle of its loop, a step already made
C14_Witness ==
    /\ cur = 1
    /\ pc = "returned"
    /\ result.steps >= 1
    /\ calls[2].pc = "apply"
    /\ calls[2].steps >= 1
    /\ calls[2].input_string # input_string

\* C21 (head addressability): in a call of execute the tape is never empty;
\* where the cell under the head is read (the lookup) and where it is
\* written (the application of the transition) 0 <= head_position <
\* len(tape), so no index is negative or past the end; at every other point
\* of the call -1 <= head_position <= len(tape); and a transition that is
\* applied and counted moves the head by exactly one cell.
C21_HeadAddressable ==
    /\ [](InRun => Len(tape) >= 1)
    /\ [](pc \in {"lookup", "apply"} =>
            (0 <= head_position /\ head_position < Len(tape)))
    /\ [](InRun => (-1 <= head_position /\ head_position <= Len(tape)))
    /\ [][(pc = "apply" /\ pc' = "while") =>
            (head_position' = head_position + 1 \/
             head_position' = head_position - 1)]_vars

\* the head had left the tape on the left after one step: a blank was put in
\* front of the non-empty input and the write is about to go to offset 0
C21_Witness ==
    /\ pc = "apply"
    /\ steps = 1
    /\ head_position = 0
    /\ input_string # <<>>
    /\ Len(tape) = Len(input_string) + 1
    /\ tape[1] = machine.blank_symbol

====
